---- MODULE Spec2Model ----
(***************************************************************************)
(* Mangrove Watch backend (lib/backend/python_backend): the JWT auth       *)
(* service, the MongoDB data-access layer and the HTTP route handlers of   *)
(* main.py, as a state machine.                                            *)
(*                                                                         *)
(* The state is the two document collections (users, incidents), the wall  *)
(* clock in minutes, the bearer tokens handed out to clients, the          *)
(* registration requests that are suspended at an await, and the response  *)
(* of the request that the latest step completed (none when the step       *)
(* completed no request).  Init is the state after startup_event has       *)
(* connected the database and built the AuthService.                       *)
(*                                                                         *)
(* svc holds what startup left in the service objects (Earth Engine        *)
(* initialized or not, Gemini model configured or not); rd is the          *)
(* aggregate read (profile statistics, dashboard, leaderboard) that is     *)
(* suspended between two of its queries; vf the verify-incident requests   *)
(* suspended between the incident update and the points award; analyses    *)
(* counts each user's successful image analyses; prev is the result of     *)
(* the Earth Engine wrapper call before the latest one; awarded sums, per  *)
(* user, the amounts that update_user_points has added to a stored user;   *)
(* ml is the MLModelService object, whose models load_model sets.          *)
(*                                                                         *)
(* Real numbers are kept in thousandths, as integers.                      *)
(***************************************************************************)
EXTENDS Integers, Sequences, FiniteSets, TLC

\* ------------------------------------------------------------------ bounds
MaxUsers == 2
MaxIncidents == 2
MaxTokens == 1
MaxTicks == 2
MaxReq == 2
MaxUpload == 1
MaxPoints == 15

\* ------------------------------------------------------- program constants
ACCESS_TOKEN_EXPIRE_MINUTES == 1440

None == "None"
NoneDoc == [_id |-> None]
Anonymous == "anonymous"
secret_key == "your-secret-key-change-in-production"
OtherKey == "some-other-key"

Emails == {"a@x.org", "b@x.org"}
Passwords == {"pw1", "pw2"}
Salts == {"s1"}
UserRole == {"citizen", "admin"}
\* the bodies of the registration requests that are tried
UserCreate ==
    {[email |-> "a@x.org", password |-> "pw1", role |-> "admin"],
     [email |-> "a@x.org", password |-> "pw2", role |-> "citizen"],
     [email |-> "b@x.org", password |-> "pw1", role |-> "citizen"]}
IncidentStatus == {"pending", "verified", "rejected", "resolved", "in_progress"}
Slots == 1..MaxReq
TickSteps == {ACCESS_TOKEN_EXPIRE_MINUTES - 1, ACCESS_TOKEN_EXPIRE_MINUTES,
              ACCESS_TOKEN_EXPIRE_MINUTES + 1}

VARIABLES users, incidents, clock, ticks, tokens, reg, last,
          svc, rd, vf, analyses, prev, awarded, ml

vars == <<users, incidents, clock, ticks, tokens, reg, last,
          svc, rd, vf, analyses, prev, awarded, ml>>

\* ----------------------------------------------------------------- helpers
RECURSIVE SelectSeqBy(_, _)
\* the documents of a collection (in natural order) that match a status query
SelectSeqBy(s, status_filter) ==
    IF s = <<>> THEN <<>>
    ELSE IF status_filter = None \/ Head(s).status = status_filter
         THEN <<Head(s)>> \o SelectSeqBy(Tail(s), status_filter)
         ELSE SelectSeqBy(Tail(s), status_filter)

Min(a, b) == IF a < b THEN a ELSE b

\* cursor.skip(k).limit(n)
SkipLimit(s, k, n) == SubSeq(s, k + 1, Min(Len(s), k + n))

\* str(e) of a starlette HTTPException(status_code, detail)
StrHTTPException(status_code, detail) == ToString(status_code) \o ": " \o detail

\* raise HTTPException(status_code=..., detail=...)
HTTPException(status_code, detail) ==
    [type |-> "HTTPException", status_code |-> status_code, detail |-> detail]

\* the AttributeError of reading a missing attribute
AttributeError(type, name) ==
    [type |-> "AttributeError", status_code |-> 0,
     detail |-> "'" \o type \o "' object has no attribute '" \o name \o "'"]

\* pymongo.errors.DuplicateKeyError
DuplicateKeyError ==
    [type |-> "DuplicateKeyError", status_code |-> 0, detail |-> "E11000 duplicate key"]

\* no exception was raised
NoExc == [type |-> None, status_code |-> 0, detail |-> ""]

\* str(e)
Str(e) ==
    IF e.type = "HTTPException" THEN StrHTTPException(e.status_code, e.detail)
    ELSE e.detail

\* ------------------------------------------------------ passwords (bcrypt)
\* a bcrypt hash carries its salt and the digest of salt and password
hash_password(password, salt) ==
    [salt |-> salt, digest |-> <<"bcrypt", salt, password>>]

verify_password(plain_password, hashed_password) ==
    hashed_password.digest = <<"bcrypt", hashed_password.salt, plain_password>>

\* --------------------------------------------------------------- JWT HS256
\* the HMAC of the claims under a key: no two (key, claims) pairs collide
HS256(claims, key) == <<"hmac", key, claims.sub, claims.email, claims.exp>>

jwt_encode(claims, key) ==
    [sub |-> claims.sub, email |-> claims.email, exp |-> claims.exp,
     sig |-> HS256(claims, key)]

create_access_token(data, now) ==
    jwt_encode([sub |-> data.sub, email |-> data.email,
                exp |-> now + ACCESS_TOKEN_EXPIRE_MINUTES], secret_key)

\* jwt.decode with the expiry left unchecked
decode_token_no_exp(token, now) ==
    IF token.sig # HS256(token, secret_key) THEN {FALSE} ELSE {TRUE}

\* the outcomes of jwt.decode: TRUE the payload is returned, FALSE a
\* PyJWTError is raised.  At the very instant of expiry the outcome depends
\* on the PyJWT release (exp < now in 1.x, exp <= now in 2.x).
decode_token(token, now) ==
    IF token.sig # HS256(token, secret_key) THEN {FALSE}
    ELSE IF token.exp < now THEN {FALSE}
    ELSE IF token.exp = now THEN {TRUE, FALSE}
    ELSE {TRUE}

\* ---------------------------------------------------------- Database reads
\* find_one returns a document or None (NoneDoc)
get_user_by_email(email) ==
    IF \E u \in users : u.email = email
    THEN CHOOSE u \in users : u.email = email
    ELSE NoneDoc

get_user_by_id(user_id) ==
    IF \E u \in users : u._id = user_id
    THEN CHOOSE u \in users : u._id = user_id
    ELSE NoneDoc

get_incident_by_id_no_filter(incident_id) ==
    IF incidents # <<>> THEN incidents[1] ELSE NoneDoc

get_incident_by_id(incident_id) ==
    IF \E i \in 1..Len(incidents) : incidents[i]._id = incident_id
    THEN incidents[CHOOSE i \in 1..Len(incidents) : incidents[i]._id = incident_id]
    ELSE NoneDoc

\* str(uuid4()): an identifier no stored document has
FreshUserId == "u" \o ToString(Cardinality(users) + 1)
FreshIncidentId == "i" \o ToString(Len(incidents) + 1)

\* the attributes an instance of class Database has
DatabaseAttrs ==
    {"client", "db", "users", "incidents", "analytics", "connect", "disconnect",
     "create_indexes", "create_user", "get_user_by_email", "get_user_by_id",
     "update_user_points", "create_incident", "get_incidents",
     "get_incident_by_id", "verify_incident", "get_leaderboard",
     "get_user_stats", "get_dashboard_analytics"}

\* the attributes of MLModelService that main.py reads
MLServiceAttrs ==
    {"model_loaded", "load_model", "predict_mangrove_coverage",
     "predict_mangrove_from_image", "retrain_model"}

\* ml_service.model_loaded once load_model has returned
model_loaded == TRUE

\* the attributes of a dict that main.py could read
DictAttrs == {"get", "keys", "items", "values", "copy", "update"}

\* ---------------------------------------------------------------- response
Response(op, status, detail, req, out) ==
    [op |-> op, status |-> status, detail |-> detail, req |-> req, out |-> out]

\* a request without an Authorization header
NoCred == [sub |-> None, email |-> None, exp |-> 0, sig |-> <<>>]

NoReq == [cred |-> NoCred]
NoOut == [user |-> None, ran |-> FALSE]

\* the step completed no request
NoResponse == Response("none", 0, "", NoReq, NoOut)

\* what startup_event can leave in gee_service.initialized and
\* gemini_service.model
Services == [gee : BOOLEAN, gemini : BOOLEAN]

\* MLModelService.__init__: no model yet
MLModelService ==
    [nn_model |-> FALSE, rf_model |-> FALSE, model_loaded |-> FALSE]

\* the identifiers create_user can hand out
AllUserIds == {"u" \o ToString(n) : n \in 1..MaxUsers}

Idle == [pc |-> "idle"]

Init ==
    /\ users = {}
    /\ incidents = <<>>
    /\ clock = 0
    /\ ticks = 0
    /\ tokens = {}
    /\ reg = [s \in Slots |-> [pc |-> "idle"]]
    /\ last = NoResponse
    /\ svc \in Services
    /\ rd = Idle
    /\ vf = [s \in Slots |-> Idle]
    /\ analyses = [u \in AllUserIds |-> 0]
    /\ prev = NoResponse
    /\ awarded = [u \in AllUserIds |-> 0]
    /\ ml = MLModelService

\* a write to the incidents collection while an aggregate read is suspended
Touch(r) == IF r.pc = "idle" THEN r ELSE [r EXCEPT !.clean = FALSE]

\* time passes
Tick ==
    /\ ticks < MaxTicks
    /\ \E d \in TickSteps : clock' = clock + d
    /\ ticks' = ticks + 1
    /\ last' = NoResponse
    /\ UNCHANGED <<users, incidents, tokens, reg, svc, rd, vf, analyses, prev,
                   awarded, ml>>

\* ------------------------------------------------------ POST /auth/register
\* the request arrives: register() calls auth_service.register_user
RegisterStart(s, user_data) ==
    /\ reg[s].pc = "idle"
    /\ reg' = [reg EXCEPT ![s] =
                 [pc |-> "check", email |-> user_data.email,
                  password |-> user_data.password, role |-> user_data.role]]
    /\ last' = NoResponse
    /\ UNCHANGED <<users, incidents, clock, ticks, tokens, svc, rd, vf, analyses, prev, awarded, ml>>

\* the except clauses of register(): DuplicateKeyError, then Exception
register_except(e) ==
    IF e.type = "DuplicateKeyError"
    THEN HTTPException(400, "Email already registered")
    ELSE HTTPException(500, Str(e))

\* register_user: existing_user = await db.get_user_by_email(email), and
\* raise HTTPException(400) inside register()'s try block when it exists
RegisterCheck(s) ==
    /\ reg[s].pc = "check"
    /\ LET existing_user == get_user_by_email(reg[s].email)
           req == [cred |-> NoCred, email |-> reg[s].email, existing |-> TRUE]
           e == register_except(HTTPException(400, "Email already registered"))
       IN IF existing_user # NoneDoc
          THEN /\ last' = Response("register", e.status_code, e.detail, req, NoOut)
               /\ reg' = [reg EXCEPT ![s] = [pc |-> "idle"]]
          ELSE /\ reg' = [reg EXCEPT ![s].pc = "insert"]
               /\ last' = NoResponse
    /\ UNCHANGED <<users, incidents, clock, ticks, tokens, svc, rd, vf, analyses, prev, awarded, ml>>

\* db.create_user: the document built from the request
user_doc_of(r, user_id, salt) ==
    [_id |-> user_id, email |-> r.email,
     password |-> hash_password(r.password, salt),
     role |-> r.role, points |-> 0, is_admin |-> (r.role = "admin")]

\* users.insert_one(user_doc) on a collection without the unique index
InsertOneNoIndex(user_doc) == FALSE

\* users.insert_one(user_doc) under the unique index on email that
\* create_indexes builds: TRUE when it raises DuplicateKeyError
InsertOneRaises(user_doc) == \E u \in users : u.email = user_doc.email

\* register_user after the check: hash, db.create_user, the response
RegisterInsert(s) ==
    /\ reg[s].pc = "insert"
    /\ \E salt \in Salts :
         LET user_doc == user_doc_of(reg[s], FreshUserId, salt)
             req == [cred |-> NoCred, email |-> reg[s].email, existing |-> FALSE]
             e == register_except(DuplicateKeyError)
         IN IF InsertOneRaises(user_doc)
            THEN /\ last' = Response("register", e.status_code, e.detail, req, NoOut)
                 /\ UNCHANGED users
            ELSE /\ Cardinality(users) < MaxUsers
                 /\ users' = users \cup {user_doc}
                 /\ last' = Response("register", 200, "", req,
                                     [user |-> user_doc._id, ran |-> TRUE])
    /\ reg' = [reg EXCEPT ![s] = [pc |-> "idle"]]
    /\ UNCHANGED <<incidents, clock, ticks, tokens, svc, rd, vf, analyses, prev, awarded, ml>>

\* --------------------------------------------------------- POST /auth/login
\* authenticate_user, with every password accepted
authenticate_user_no_verify(email, password, now) ==
    LET user_doc == get_user_by_email(email)
    IN IF user_doc = NoneDoc
       THEN [e |-> HTTPException(401, "Invalid credentials"), token |-> NoCred]
       ELSE [e |-> NoExc,
             token |-> create_access_token([sub |-> user_doc._id,
                                            email |-> user_doc.email], now)]

\* authenticate_user: the exception it raises, or the token it returns
authenticate_user(email, password, now) ==
    LET user_doc == get_user_by_email(email)
    IN IF user_doc = NoneDoc
       THEN [e |-> HTTPException(401, "Invalid credentials"), token |-> NoCred]
       ELSE IF ~verify_password(password, user_doc.password)
       THEN [e |-> HTTPException(401, "Invalid credentials"), token |-> NoCred]
       ELSE [e |-> NoExc,
             token |-> create_access_token([sub |-> user_doc._id,
                                            email |-> user_doc.email], now)]

\* login(): the token and token_type "bearer", or 401 for any exception
Login(email, password) ==
    LET r == authenticate_user(email, password, clock)
        req == [cred |-> NoCred, email |-> email, password |-> password,
                now |-> clock]
    IN /\ IF r.e # NoExc
          THEN /\ last' = Response("login", 401, "Invalid credentials", req, NoOut)
               /\ UNCHANGED tokens
          ELSE /\ r.token \in tokens \/ Cardinality(tokens) < MaxTokens
               /\ tokens' = tokens \cup {r.token}
               /\ last' = Response("login", 200, "", req,
                                   [user |-> r.token.sub, ran |-> TRUE,
                                    access_token |-> r.token,
                                    token_type |-> "bearer"])
       /\ UNCHANGED <<users, incidents, clock, ticks, reg, svc, rd, vf, analyses, prev, awarded, ml>>

\* ------------------------------------------------------------ dependencies
\* security = HTTPBearer(): with auto_error left on, a request without
\* bearer credentials is answered 403 before any dependant runs
security(cred) ==
    IF cred = NoCred THEN HTTPException(403, "Not authenticated") ELSE NoExc

\* get_current_user of the auth service, looking the user up without
\* verifying the token
auth_get_current_user_unverified(token, now) ==
    LET user == get_user_by_id(token.sub)
    IN {IF token.sub = None
        THEN [e |-> HTTPException(401, "Invalid token"), user |-> None]
        ELSE IF user = NoneDoc
        THEN [e |-> HTTPException(401, "User not found"), user |-> None]
        ELSE [e |-> NoExc, user |-> user._id]}

\* AuthService.get_current_user: the possible results for a token at a time
auth_get_current_user(token, now) ==
    LET user == get_user_by_id(token.sub)
    IN {IF ~ok
        THEN [e |-> HTTPException(401, "Invalid token"), user |-> None]
        ELSE IF token.sub = None
        THEN [e |-> HTTPException(401, "Invalid token"), user |-> None]
        ELSE IF user = NoneDoc
        THEN [e |-> HTTPException(401, "User not found"), user |-> None]
        ELSE [e |-> NoExc, user |-> user._id] : ok \in decode_token(token, now)}

\* Depends(get_current_user) of main.py: any exception becomes 401
get_current_user(cred, now) ==
    IF security(cred) # NoExc
    THEN {[e |-> security(cred), user |-> None]}
    ELSE {IF r.e # NoExc
          THEN [e |-> HTTPException(401, "Invalid token"), user |-> None]
          ELSE r : r \in auth_get_current_user(cred, now)}

\* Depends(get_current_user_optional): any exception becomes user None
get_current_user_optional(cred, now) ==
    IF security(cred) # NoExc
    THEN {[e |-> security(cred), user |-> None]}
    ELSE {IF r.e # NoExc THEN [e |-> NoExc, user |-> None] ELSE r :
             r \in auth_get_current_user(cred, now)}

\* the tokens a client can make up: signed with another key, signed with
\* the service's key but without a subject or for an unknown subject, and
\* an issued token whose subject was changed afterwards
FarFuture == (MaxTicks + 1) * ACCESS_TOKEN_EXPIRE_MINUTES

ForgedTokens ==
    {jwt_encode([sub |-> "u1", email |-> "a@x.org", exp |-> FarFuture], OtherKey),
     jwt_encode([sub |-> None, email |-> "a@x.org", exp |-> FarFuture], secret_key),
     jwt_encode([sub |-> "u0", email |-> "a@x.org", exp |-> FarFuture], secret_key)}
    \cup {[t EXCEPT !.sub = "u1"] : t \in {x \in tokens : x.sub # "u1"}}

Creds == {NoCred} \cup tokens \cup ForgedTokens

\* the response of a request that a dependency turned down
Rejected(op, a, req) ==
    Response(op, a.e.status_code, a.e.detail, req, NoOut)

\* ---------------------------------------------- Database.create_incident
incident_doc_of(incident_id, user_id) ==
    [_id |-> incident_id, user_id |-> user_id, status |-> "pending",
     verified_by |-> None, points_awarded |-> 0]

\* db.create_incident(incident_data, user_id): insert_one, then read back
DbCreateIncident(user_id) ==
    /\ Len(incidents) < MaxIncidents
    /\ LET incident_doc == incident_doc_of(FreshIncidentId, user_id)
       IN /\ incidents' = Append(incidents, incident_doc)
          /\ last' = Response("db.create_incident", 0, "", NoReq,
                              [user |-> user_id, ran |-> TRUE,
                               incident |-> incident_doc])
    /\ rd' = Touch(rd)
    /\ UNCHANGED <<users, clock, ticks, tokens, reg, svc, vf, analyses, prev, awarded, ml>>

\* --------------------------------------------------- GET /incidents/{id}
\* get_incident(): the 404 is raised inside the try block and caught by
\* `except Exception`
GetIncident(cred, incident_id) ==
    /\ \E a \in get_current_user(cred, clock) :
         LET req == [cred |-> cred, now |-> clock, incident_id |-> incident_id]
             incident == get_incident_by_id(incident_id)
             e == HTTPException(500, Str(HTTPException(404, "Incident not found")))
         IN IF a.e # NoExc
            THEN last' = Rejected("get_incident", a, req)
            ELSE IF incident = NoneDoc
            THEN last' = Response("get_incident", e.status_code, e.detail, req,
                                  [user |-> a.user, ran |-> TRUE])
            ELSE last' = Response("get_incident", 200, "", req,
                                  [user |-> a.user, ran |-> TRUE,
                                   incident |-> incident])
    /\ UNCHANGED <<users, incidents, clock, ticks, tokens, reg, svc, rd, vf, analyses, prev, awarded, ml>>

\* ------------------------------------------------------- POST /incidents
\* reading the attribute of an object: the AttributeError, or NoExc
getattr(attrs, type, name) ==
    IF name \in attrs THEN NoExc ELSE AttributeError(type, name)

\* str(datetime.now().timestamp())
TimestampId(now) == "t" \o ToString(now)

\* create_incident(): the incident is built, then ml_service and db are
\* consulted; whatever is raised becomes a 500
PostIncidents(cred, body_userId) ==
    /\ \E a \in get_current_user_optional(cred, clock) :
         LET req == [cred |-> cred, now |-> clock, userId |-> body_userId]
             user_id == IF a.user # None THEN a.user ELSE Anonymous
             incident == [id |-> TimestampId(clock),
                          userId |-> IF body_userId # None THEN body_userId
                                     ELSE user_id,
                          status |-> "pending"]
             e1 == IF model_loaded
                   THEN getattr(MLServiceAttrs, "MLModelService",
                                "predict_incident_severity")
                   ELSE NoExc
             e2 == getattr(DatabaseAttrs, "Database", "is_connected")
             e3 == getattr(DatabaseAttrs, "Database", "incidents_collection")
             e == IF e1 # NoExc THEN e1 ELSE IF e2 # NoExc THEN e2 ELSE e3
         IN IF a.e # NoExc
            THEN /\ last' = Rejected("post_incidents", a, req)
                 /\ UNCHANGED incidents
            ELSE IF e # NoExc
            THEN /\ last' = Response("post_incidents", 500, Str(e), req,
                                     [user |-> a.user, ran |-> TRUE])
                 /\ UNCHANGED incidents
            ELSE /\ Len(incidents) < MaxIncidents
                 /\ incidents' = Append(incidents,
                        [_id |-> "oid" \o ToString(Len(incidents) + 1),
                         id |-> incident.id, userId |-> incident.userId,
                         status |-> incident.status])
                 /\ last' = Response("post_incidents", 200, "", req,
                                     [user |-> a.user, ran |-> TRUE,
                                      incident |-> incident])
    /\ UNCHANGED <<users, clock, ticks, tokens, reg, svc, rd, vf, analyses, prev, awarded, ml>>

\* -------------------------------------------------------- GET /incidents
\* get_incidents(): an empty list when db.is_connected() is false and on
\* any exception
GetIncidents(cred, skip, limit, status_filter) ==
    /\ \E a \in get_current_user_optional(cred, clock) :
         LET req == [cred |-> cred, now |-> clock, skip |-> skip,
                     limit |-> limit, status_filter |-> status_filter]
             e2 == getattr(DatabaseAttrs, "Database", "is_connected")
             e3 == getattr(DatabaseAttrs, "Database", "incidents_collection")
             e == IF e2 # NoExc THEN e2 ELSE e3
         IN IF a.e # NoExc
            THEN last' = Rejected("get_incidents", a, req)
            ELSE IF e # NoExc
            THEN last' = Response("get_incidents", 200, "", req,
                                  [user |-> a.user, ran |-> TRUE,
                                   incidents |-> <<>>])
            ELSE last' = Response("get_incidents", 200, "", req,
                                  [user |-> a.user, ran |-> TRUE,
                                   incidents |->
                                     SkipLimit(SelectSeqBy(incidents, status_filter),
                                               skip, limit)])
    /\ UNCHANGED <<users, incidents, clock, ticks, tokens, reg, svc, rd, vf, analyses, prev, awarded, ml>>

\* -------------------------------------------------- POST /predict-mangrove
\* predict_mangrove(): request is a Dict[str, Any] and the handler reads
\* request.latitude
PredictMangrove(cred, latitude, longitude) ==
    /\ \E a \in get_current_user_optional(cred, clock) :
         LET req == [cred |-> cred, now |-> clock, latitude |-> latitude,
                     longitude |-> longitude]
             e == getattr(DictAttrs, "dict", "latitude")
         IN IF a.e # NoExc
            THEN last' = Rejected("predict_mangrove", a, req)
            ELSE IF e # NoExc
            THEN last' = Response("predict_mangrove", 500,
                                  "Prediction failed: " \o Str(e), req,
                                  [user |-> a.user, ran |-> TRUE])
            ELSE last' = Response("predict_mangrove", 200, "", req,
                                  [user |-> a.user, ran |-> TRUE,
                                   latitude |-> latitude,
                                   longitude |-> longitude])
    /\ UNCHANGED <<users, incidents, clock, ticks, tokens, reg, svc, rd, vf, analyses, prev, awarded, ml>>

\* ------------------------------------------------ GoogleEarthEngineService
Abs(x) == IF x < 0 THEN -x ELSE x

Max(a, b) == IF a > b THEN a ELSE b

\* a number Earth Engine's getInfo() hands back, or Python's None
Num(v) == [null |-> FALSE, v |-> v]

NoneNum == [null |-> TRUE, v |-> 0]

\* `x or 0`
OrZero(x) == IF x.null THEN 0 ELSE x.v

\* `float(x) if x is not None else 0.0`
FloatOrZero(x) == IF x.null THEN 0 ELSE x.v

\* what the Earth Engine queries of get_satellite_data can come back with:
\* an exception, or the sampled pixel and the area statistics
EESatellite ==
    {[raises |-> TRUE, ndvi |-> NoneNum, ndwi |-> NoneNum, savi |-> NoneNum,
      stats |-> NoneDoc],
     [raises |-> FALSE, ndvi |-> NoneNum, ndwi |-> NoneNum, savi |-> NoneNum,
      stats |-> [ndvi_mean |-> NoneNum, ndvi_std |-> NoneNum,
                 water_percentage |-> NoneNum]],
     [raises |-> FALSE, ndvi |-> Num(612), ndwi |-> Num(-150),
      savi |-> Num(480),
      stats |-> [ndvi_mean |-> Num(590), ndvi_std |-> Num(80),
                 water_percentage |-> Num(12000)]]}

\* what the two Global Mangrove Watch area queries can come back with
EEAreas == {NoneNum, Num(0), Num(8000), Num(10000)}

EEExtent ==
    {[raises |-> TRUE, area_2020 |-> NoneNum, area_1996 |-> NoneNum]}
    \cup [raises : {FALSE}, area_2020 : EEAreas, area_1996 : EEAreas]

years == <<1996, 2000, 2005, 2010, 2015, 2020>>

\* one year of get_mangrove_trends: the size of the filtered collection and
\* the mean NDVI of the area
EEReadings == {[size |-> 0, nd |-> NoneNum], [size |-> 1, nd |-> NoneNum],
               [size |-> 1, nd |-> Num(550)]}

EETrends ==
    {[raises |-> r, readings |-> [i \in DOMAIN years |-> g]] :
        r \in BOOLEAN, g \in EEReadings}
    \cup {[raises |-> FALSE,
           readings |-> [i \in DOMAIN years |->
                           IF i <= 2 THEN [size |-> 0, nd |-> NoneNum]
                           ELSE [size |-> 1, nd |-> Num(500 + 10 * i)]]]}

\* values np.random.normal(0, 5) can draw, chosen so that both clamps and
\* the unclamped case occur
Normal == {-80000, 30000, 1000}

\* the draws of one _get_mock_trends_data call, one per year; the last five
\* years share a draw
Draws == {[i \in DOMAIN years |-> IF i = 1 THEN a ELSE b] :
            a \in Normal, b \in Normal}

TypeError == [type |-> "TypeError", status_code |-> 0,
              detail |-> "unsupported operand type(s)"]

EEException == [type |-> "EEException", status_code |-> 0,
                detail |-> "Earth Engine request failed"]

_get_mock_satellite_data(latitude, longitude, now) ==
    LET base_ndvi == 300 + (Abs(latitude) * 400) \div 90
    IN [latitude |-> latitude, longitude |-> longitude,
        ndvi |-> base_ndvi, ndwi |-> 200, savi |-> (base_ndvi * 8) \div 10,
        area_stats |-> [ndvi_mean |-> Num(base_ndvi), ndvi_std |-> Num(150),
                        water_percentage |-> Num(25000)],
        data_date |-> now, cloud_cover |-> "low", data_source |-> "Mock"]

\* the try block of get_satellite_data
satellite_try(latitude, longitude, q, now) ==
    IF q.raises THEN [e |-> EEException, data |-> NoneDoc]
    ELSE [e |-> NoExc,
          data |-> [latitude |-> latitude, longitude |-> longitude,
                    ndvi |-> FloatOrZero(q.ndvi), ndwi |-> FloatOrZero(q.ndwi),
                    savi |-> FloatOrZero(q.savi), area_stats |-> q.stats,
                    data_date |-> now, cloud_cover |-> "low",
                    data_source |-> "Landsat"]]

get_satellite_data_no_except(latitude, longitude, q, now) ==
    IF ~svc.gee
    THEN [e |-> NoExc, data |-> _get_mock_satellite_data(latitude, longitude, now)]
    ELSE satellite_try(latitude, longitude, q, now)

get_satellite_data(latitude, longitude, q, now) ==
    IF ~svc.gee
    THEN [e |-> NoExc, data |-> _get_mock_satellite_data(latitude, longitude, now)]
    ELSE LET t == satellite_try(latitude, longitude, q, now)
         IN IF t.e # NoExc
            THEN [e |-> NoExc,
                  data |-> _get_mock_satellite_data(latitude, longitude, now)]
            ELSE t

_get_mock_extent_data(latitude, longitude) ==
    LET base_area == Abs(latitude) * 10000
    IN [current_extent_hectares |-> base_area,
        historical_extent_hectares |-> (base_area * 12) \div 10,
        change_hectares |-> -((base_area * 2) \div 10),
        change_percentage |-> -16700]

\* the try block of get_mangrove_extent_data: `area_1996 > 0` and
\* `area_2020 - area_1996` raise TypeError on None
extent_try(q) ==
    IF q.raises THEN [e |-> EEException, data |-> NoneDoc]
    ELSE IF q.area_1996.null THEN [e |-> TypeError, data |-> NoneDoc]
    ELSE IF q.area_1996.v > 0 /\ q.area_2020.null
    THEN [e |-> TypeError, data |-> NoneDoc]
    ELSE [e |-> NoExc,
          data |-> [current_extent_hectares |-> OrZero(q.area_2020),
                    historical_extent_hectares |-> OrZero(q.area_1996),
                    change_hectares |-> OrZero(q.area_2020) - OrZero(q.area_1996),
                    change_percentage |->
                        IF q.area_1996.v > 0
                        THEN ((q.area_2020.v - q.area_1996.v) * 100000)
                                 \div q.area_1996.v
                        ELSE 0]]

get_mangrove_extent_data_unguarded(latitude, longitude, q) ==
    LET t == extent_try(q)
    IN IF t.e # NoExc
       THEN [e |-> NoExc, data |-> _get_mock_extent_data(latitude, longitude)]
       ELSE t

get_mangrove_extent_data(latitude, longitude, q) ==
    IF ~svc.gee
    THEN [e |-> NoExc, data |-> _get_mock_extent_data(latitude, longitude)]
    ELSE LET t == extent_try(q)
         IN IF t.e # NoExc
            THEN [e |-> NoExc, data |-> _get_mock_extent_data(latitude, longitude)]
            ELSE t

\* health_score of the i-th year (i counted from 0) for the draw z
mock_health_score(i, z) == Max(0, Min(100000, 75000 - (i * 2000) + z))

_get_mock_trends_data(latitude, longitude, normal) ==
    [trends |-> [i \in DOMAIN years |->
                    LET health_score == mock_health_score(i - 1, normal[i])
                    IN [year |-> years[i],
                        ndvi_mean |-> health_score \div 100,
                        health_score |-> health_score]],
     location |-> [latitude |-> latitude, longitude |-> longitude],
     radius_km |-> 10]

\* the years of s whose collection is not empty, in order
RECURSIVE WithData(_, _)
WithData(readings, i) ==
    IF i > Len(years) THEN <<>>
    ELSE (IF readings[i].size > 0
          THEN <<[year |-> years[i],
                  ndvi_mean |-> FloatOrZero(readings[i].nd),
                  health_score |-> FloatOrZero(readings[i].nd) * 100]>>
          ELSE <<>>) \o WithData(readings, i + 1)

trends_try(latitude, longitude, q) ==
    IF q.raises THEN [e |-> EEException, data |-> NoneDoc]
    ELSE [e |-> NoExc,
          data |-> [trends |-> WithData(q.readings, 1),
                    location |-> [latitude |-> latitude,
                                  longitude |-> longitude],
                    radius_km |-> 10]]

get_mangrove_trends(latitude, longitude, q, normal) ==
    IF ~svc.gee
    THEN [e |-> NoExc, data |-> _get_mock_trends_data(latitude, longitude, normal)]
    ELSE LET t == trends_try(latitude, longitude, q)
         IN IF t.e # NoExc
            THEN [e |-> NoExc,
                  data |-> _get_mock_trends_data(latitude, longitude, normal)]
            ELSE t

GeeOps == {"gee.get_satellite_data", "gee.get_mangrove_extent_data",
           "gee.get_mangrove_trends"}

\* a call of one of the three wrappers; failed records that the real query
\* was made and did not produce a result
GeeResponse(op, latitude, longitude, r, failed) ==
    Response(op, 0, "", [cred |-> NoCred, latitude |-> latitude,
                         longitude |-> longitude],
             [user |-> None, ran |-> TRUE, e |-> r.e, data |-> r.data,
              failed |-> failed])

GetSatelliteData(latitude, longitude, q) ==
    /\ last' = GeeResponse("gee.get_satellite_data", latitude, longitude,
                           get_satellite_data(latitude, longitude, q, clock),
                           svc.gee /\ satellite_try(latitude, longitude, q,
                                                    clock).e # NoExc)
    /\ prev' = last
    /\ UNCHANGED <<users, incidents, clock, ticks, tokens, reg, svc, rd, vf,
                   analyses, awarded, ml>>

GetMangroveExtentData(latitude, longitude, q) ==
    /\ last' = GeeResponse("gee.get_mangrove_extent_data", latitude, longitude,
                           get_mangrove_extent_data(latitude, longitude, q),
                           svc.gee /\ extent_try(q).e # NoExc)
    /\ prev' = last
    /\ UNCHANGED <<users, incidents, clock, ticks, tokens, reg, svc, rd, vf,
                   analyses, awarded, ml>>

GetMangroveTrends(latitude, longitude, q, normal) ==
    /\ last' = GeeResponse("gee.get_mangrove_trends", latitude, longitude,
                           get_mangrove_trends(latitude, longitude, q, normal),
                           svc.gee /\ trends_try(latitude, longitude, q).e
                                         # NoExc)
    /\ prev' = last
    /\ UNCHANGED <<users, incidents, clock, ticks, tokens, reg, svc, rd, vf,
                   analyses, awarded, ml>>

\* ------------------------------------------ POST /predict-mangrove-image
\* the content types an upload can carry, split at the first '/': none or
\* empty, text/plain, image/png, and the bare word image
ContentTypes == {<<>>, <<"text", "plain">>, <<"image", "png">>, <<"image">>}

\* content_type.startswith('image/')
StartsWithImage(content_type) ==
    Len(content_type) >= 2 /\ content_type[1] = "image"

predict_image_except_all(e) ==
    HTTPException(500, "Error analyzing image: " \o Str(e))

\* the except clauses of predict_mangrove_image: `except HTTPException:
\* raise` comes before `except Exception`
predict_image_except(e) ==
    IF e.type = "HTTPException" THEN e
    ELSE HTTPException(500, "Error analyzing image: " \o Str(e))

\* predict_mangrove_image(): no authentication; size is len(image_data).
\* ml_service.predict_mangrove_from_image catches everything itself.
PredictMangroveImage(content_type, size) ==
    /\ LET req == [cred |-> NoCred, content_type |-> content_type,
                   size |-> size]
           e == IF content_type = <<>> \/ ~StartsWithImage(content_type)
                THEN predict_image_except(
                         HTTPException(400, "Invalid image file format"))
                ELSE IF size = 0
                THEN predict_image_except(HTTPException(400, "Empty image file"))
                ELSE NoExc
       IN IF e # NoExc
          THEN last' = Response("predict_mangrove_image", e.status_code,
                                e.detail, req, NoOut)
          ELSE last' = Response("predict_mangrove_image", 200, "", req,
                                [user |-> None, ran |-> TRUE,
                                 status |-> "success"])
    /\ UNCHANGED <<users, incidents, clock, ticks, tokens, reg, svc, rd, vf,
                   analyses, prev, awarded, ml>>

\* ------------------------------------------- Database.update_user_points
update_user_points_set(user_id, points_to_add) ==
    {IF u._id = user_id THEN [u EXCEPT !.points = points_to_add] ELSE u :
        u \in users}

update_user_points_unfiltered(user_id, points_to_add) ==
    {[u EXCEPT !.points = @ + points_to_add] : u \in users}

\* users.update_one({"_id": user_id}, {"$inc": {"points": points_to_add}}):
\* one atomic update of the matching document, nothing when none matches
update_user_points(user_id, points_to_add) ==
    {IF u._id = user_id THEN [u EXCEPT !.points = @ + points_to_add] ELSE u :
        u \in users}

\* the amounts handed to update_user_points for a stored user, summed
Awarded(user_id, points_to_add) ==
    IF \E u \in users : u._id = user_id
    THEN [awarded EXCEPT ![user_id] = @ + points_to_add]
    ELSE awarded

\* the points that requests suspended before their award will still add
RECURSIVE PendingAwards(_)
PendingAwards(S) ==
    IF S = {} THEN 0
    ELSE LET s == CHOOSE x \in S : TRUE
         IN (IF vf[s].pc = "award" THEN vf[s].points_awarded ELSE 0)
            + PendingAwards(S \ {s})

\* no user's total can pass MaxPoints when another amount is added
RoomFor(amount) ==
    \A u \in users : u.points + PendingAwards(Slots) + amount <= MaxPoints

\* ---------------------------------------------- Database.verify_incident
\* d.get(key, default)
dict_get(d, key, default) == IF key \in DOMAIN d THEN d[key] ELSE default

\* the verification bodies a client sends: approved with the default
\* points, approved with 5 points, and not approved
Verifications ==
    {[approved |-> TRUE], [approved |-> TRUE, points |-> 5],
     [approved |-> FALSE]}

\* the incident document after {"$set": update_doc}
verify_update_keep_status(incident_doc, verification, verifier_id) ==
    IF dict_get(verification, "approved", FALSE)
    THEN [incident_doc EXCEPT !.verified_by = verifier_id,
                              !.points_awarded =
                                  dict_get(verification, "points", 10)]
    ELSE [incident_doc EXCEPT !.verified_by = verifier_id,
                              !.status = "rejected"]

verify_update(incident_doc, verification, verifier_id) ==
    IF dict_get(verification, "approved", FALSE)
    THEN [incident_doc EXCEPT !.verified_by = verifier_id,
                              !.status = "verified",
                              !.points_awarded =
                                  dict_get(verification, "points", 10)]
    ELSE [incident_doc EXCEPT !.verified_by = verifier_id,
                              !.status = "rejected"]

\* db.verify_incident up to its update_one: an approval is then suspended
\* before get_incident_by_id and update_user_points, a rejection returns.
\* op and req are those of the caller (the route, or a direct call).
DbVerifyUpdate(s, op, req, incident_id, verification, verifier_id) ==
    LET approved == dict_get(verification, "approved", FALSE)
        matched == get_incident_by_id(incident_id) # NoneDoc
    IN /\ approved => RoomFor(dict_get(verification, "points", 10))
       /\ incidents' = [i \in DOMAIN incidents |->
                          IF incidents[i]._id = incident_id
                          THEN verify_update(incidents[i], verification,
                                             verifier_id)
                          ELSE incidents[i]]
       /\ rd' = IF matched THEN Touch(rd) ELSE rd
       /\ IF approved
          THEN /\ vf' = [vf EXCEPT ![s] =
                           [pc |-> "award", op |-> op, req |-> req,
                            incident_id |-> incident_id,
                            verifier_id |-> verifier_id,
                            points_awarded |->
                                dict_get(verification, "points", 10),
                            success |-> matched]]
               /\ last' = NoResponse
          ELSE /\ vf' = vf
               /\ last' = Response(op, 200, "", req,
                                   [user |-> verifier_id, ran |-> TRUE,
                                    success |-> matched])

\* the rest of an approval: incident.user_id on the incident read back
\* (None when the id matched nothing), then the $inc
DbVerifyAward(s) ==
    /\ vf[s].pc = "award"
    /\ LET v == vf[s]
           incident == get_incident_by_id(v.incident_id)
           e == AttributeError("NoneType", "user_id")
       IN IF incident = NoneDoc
          THEN /\ users' = users
               /\ awarded' = awarded
               /\ last' = Response(v.op, 500, Str(e), v.req,
                                   [user |-> v.verifier_id, ran |-> TRUE,
                                    success |-> FALSE])
          ELSE /\ users' = update_user_points(incident.user_id,
                                              v.points_awarded)
               /\ awarded' = Awarded(incident.user_id, v.points_awarded)
               /\ last' = Response(v.op, 200, "", v.req,
                                   [user |-> v.verifier_id, ran |-> TRUE,
                                    success |-> v.success,
                                    awarded_to |-> incident.user_id])
    /\ vf' = [vf EXCEPT ![s] = Idle]
    /\ UNCHANGED <<incidents, clock, ticks, tokens, reg, svc, rd, analyses,
                   prev, ml>>

\* a direct call db.verify_incident(incident_id, verification, verifier_id)
DbVerifyIncident(s, incident_id, verification, verifier_id) ==
    /\ vf[s].pc = "idle"
    /\ DbVerifyUpdate(s, "db.verify_incident",
                      [cred |-> NoCred, incident_id |-> incident_id,
                       verification |-> verification,
                       verifier_id |-> verifier_id],
                      incident_id, verification, verifier_id)
    /\ UNCHANGED <<users, clock, ticks, tokens, reg, svc, analyses, prev, awarded, ml>>

\* ---------------------------------- POST /user/verify-incident/{incident_id}
\* verify_incident(): the 403 is raised inside the try block and caught by
\* `except Exception`
VerifyIncident(s, cred, incident_id, verification) ==
    /\ vf[s].pc = "idle"
    /\ \E a \in get_current_user(cred, clock) :
         LET req == [cred |-> cred, incident_id |-> incident_id,
                     verification |-> verification]
             e == HTTPException(500,
                      Str(HTTPException(403, "Admin access required")))
         IN IF a.e # NoExc
            THEN /\ last' = Rejected("verify_incident", a, req)
                 /\ UNCHANGED <<incidents, vf, rd>>
            ELSE IF ~get_user_by_id(a.user).is_admin
            THEN /\ last' = Response("verify_incident", e.status_code,
                                     e.detail, req,
                                     [user |-> a.user, ran |-> FALSE])
                 /\ UNCHANGED <<incidents, vf, rd>>
            ELSE DbVerifyUpdate(s, "verify_incident", req, incident_id,
                                verification, a.user)
    /\ UNCHANGED <<users, clock, ticks, tokens, reg, svc, analyses, prev, awarded, ml>>

\* ------------------------------------------------------ POST /analyze-image
\* gemini_service.analyze_mangrove_image: raises when no model was
\* configured and re-raises whatever the vision call raises
analyze_mangrove_image(raises) ==
    IF ~svc.gemini
    THEN [type |-> "Exception", status_code |-> 0,
          detail |-> "Gemini API key not configured"]
    ELSE IF raises
    THEN [type |-> "Exception", status_code |-> 0,
          detail |-> "Failed to analyze image with Gemini: error"]
    ELSE NoExc

\* analyze_image_with_gemini(): the award follows the analysis
AnalyzeImage(cred, raises) ==
    /\ \E a \in get_current_user(cred, clock) :
         LET req == [cred |-> cred, raises |-> raises]
             e == analyze_mangrove_image(raises)
         IN IF a.e # NoExc
            THEN /\ last' = Rejected("analyze_image", a, req)
                 /\ UNCHANGED <<users, analyses, awarded, ml>>
            ELSE IF e # NoExc
            THEN /\ last' = Response("analyze_image", 500,
                                     "Failed to analyze image: " \o Str(e),
                                     req, [user |-> a.user, ran |-> FALSE])
                 /\ UNCHANGED <<users, analyses, awarded, ml>>
            ELSE /\ RoomFor(5)
                 /\ users' = update_user_points(a.user, 5)
                 /\ awarded' = Awarded(a.user, 5)
                 /\ analyses' = [analyses EXCEPT ![a.user] = @ + 1]
                 /\ last' = Response("analyze_image", 200, "", req,
                                     [user |-> a.user, ran |-> TRUE,
                                      points_earned |-> 5])
    /\ UNCHANGED <<incidents, clock, ticks, tokens, reg, svc, rd, vf, prev, ml>>

\* ------------------------------------------- leaderboard and statistics
count_documents_any_status(s, user_id, status) ==
    Len(SelectSeqBy(s, None))

\* incidents.count_documents(filter) for a filter on user_id, on status, on
\* both or on neither (None)
RECURSIVE count_documents(_, _, _)
count_documents(s, user_id, status) ==
    IF s = <<>> THEN 0
    ELSE (IF /\ (user_id = None \/ Head(s).user_id = user_id)
             /\ (status = None \/ Head(s).status = status)
          THEN 1 ELSE 0) + count_documents(Tail(s), user_id, status)

\* cursor.limit(limit): 0 means no limit, a negative limit its absolute value
cursor_limit(s, limit) ==
    IF limit = 0 THEN s ELSE SubSeq(s, 1, Min(Len(s), Abs(limit)))

\* users.find({}).sort("points", -1): every order of the documents with
\* non-increasing points (ties come in any order)
SortedByPoints ==
    {p \in [1..Cardinality(users) -> users] :
        /\ \A i, j \in DOMAIN p : i # j => p[i] # p[j]
        /\ \A i, j \in DOMAIN p : i < j => p[i].points >= p[j].points}

\* db.get_leaderboard(limit).  The documents are those of the cursor; the
\* report counts of every entry are taken at the same moment.  The model's
\* users carry no name: the unique email stands for it.
GetLeaderboard(limit) ==
    /\ \E p \in SortedByPoints :
         LET docs == cursor_limit(p, limit)
         IN last' = Response("db.get_leaderboard", 0, "",
                             [cred |-> NoCred, limit |-> limit],
                             [user |-> None, ran |-> TRUE,
                              leaderboard |->
                                [i \in DOMAIN docs |->
                                   [rank |-> i, name |-> docs[i].email,
                                    points |-> docs[i].points,
                                    total_reports |->
                                        count_documents(incidents,
                                                        docs[i]._id, None),
                                    verified_reports |->
                                        count_documents(incidents,
                                                        docs[i]._id,
                                                        "verified")]]])
    /\ UNCHANGED <<users, incidents, clock, ticks, tokens, reg, svc, rd, vf,
                   analyses, prev, awarded, ml>>

\* db.get_user_stats(user_id) up to its first count
GetUserStatsTotal(user_id) ==
    /\ rd.pc = "idle"
    /\ rd' = [pc |-> "stats", user_id |-> user_id,
              counts |-> <<count_documents(incidents, user_id, None)>>,
              clean |-> TRUE]
    /\ last' = NoResponse
    /\ UNCHANGED <<users, incidents, clock, ticks, tokens, reg, svc, vf,
                   analyses, prev, awarded, ml>>

\* the second count of db.get_user_stats and its return; clean tells that
\* no incident was written between the two counts
GetUserStatsVerified ==
    /\ rd.pc = "stats"
    /\ last' = Response("db.get_user_stats", 0, "",
                        [cred |-> NoCred, user_id |-> rd.user_id],
                        [user |-> rd.user_id, ran |-> TRUE,
                         total_reports |-> rd.counts[1],
                         verified_reports |->
                             count_documents(incidents, rd.user_id, "verified"),
                         clean |-> rd.clean])
    /\ rd' = Idle
    /\ UNCHANGED <<users, incidents, clock, ticks, tokens, reg, svc, vf,
                   analyses, prev, awarded, ml>>

\* the statuses db.get_dashboard_analytics counts after the total, in order
DashboardStatuses == <<"pending", "verified", "resolved">>

\* db.get_dashboard_analytics up to its first count
GetDashboardTotal ==
    /\ rd.pc = "idle"
    /\ rd' = [pc |-> "dashboard", user_id |-> None,
              counts |-> <<count_documents(incidents, None, None)>>,
              clean |-> TRUE]
    /\ last' = NoResponse
    /\ UNCHANGED <<users, incidents, clock, ticks, tokens, reg, svc, vf,
                   analyses, prev, awarded, ml>>

\* the counts of pending and of verified incidents
GetDashboardCount ==
    /\ rd.pc = "dashboard"
    /\ Len(rd.counts) < Len(DashboardStatuses)
    /\ rd' = [rd EXCEPT !.counts =
                 Append(@, count_documents(incidents, None,
                                           DashboardStatuses[Len(rd.counts)]))]
    /\ last' = NoResponse
    /\ UNCHANGED <<users, incidents, clock, ticks, tokens, reg, svc, vf,
                   analyses, prev, awarded, ml>>

\* verification_rate, in thousandths of a percent
verification_rate(verified_incidents, total_incidents) ==
    IF total_incidents > 0
    THEN (verified_incidents * 100000) \div total_incidents
    ELSE 0

\* the count of resolved incidents and the return
GetDashboardReturn ==
    /\ rd.pc = "dashboard"
    /\ Len(rd.counts) = Len(DashboardStatuses)
    /\ last' = Response("db.get_dashboard_analytics", 0, "", NoReq,
                        [user |-> None, ran |-> TRUE,
                         total_incidents |-> rd.counts[1],
                         pending_incidents |-> rd.counts[2],
                         verified_incidents |-> rd.counts[3],
                         resolved_incidents |->
                             count_documents(incidents, None, "resolved"),
                         total_users |-> Cardinality(users),
                         verification_rate |->
                             verification_rate(rd.counts[3], rd.counts[1]),
                         clean |-> rd.clean])
    /\ rd' = Idle
    /\ UNCHANGED <<users, incidents, clock, ticks, tokens, reg, svc, vf,
                   analyses, prev, awarded, ml>>

\* --------------------------------------------------------- MLModelService
\* load_model(): each model is loaded from its file when the file exists;
\* with neither, both are built and trained; a failure on the way leaves what
\* was set before it.  model_loaded ends True on every path.
LoadModel(nn_model, rf_model) ==
    /\ ~ml.model_loaded
    /\ ml' = [nn_model |-> nn_model, rf_model |-> rf_model,
              model_loaded |-> TRUE]
    /\ last' = NoResponse
    /\ UNCHANGED <<users, incidents, clock, ticks, tokens, reg, svc, rd, vf,
                   analyses, prev, awarded>>

\* the satellite_data dictionaries that are tried: every index a number or
\* None, and dictionaries without the index keys
SatelliteData ==
    [ndvi : {NoneNum, Num(-100), Num(200), Num(300), Num(400), Num(600),
             Num(900)},
     ndwi : {NoneNum, Num(-400), Num(0), Num(500)},
     savi : {NoneNum, Num(150), Num(200), Num(700)}]
      \cup {[ndwi |-> Num(0), savi |-> Num(200)], [latitude |-> Num(21000)]}

\* what nn_model.predict / rf_model.predict can come back with: an
\* exception, or a number (a model read from a file is not known to stay
\* within 0..1)
ModelOutputs ==
    {[raises |-> TRUE, v |-> 0]}
      \cup {[raises |-> FALSE, v |-> v] : v \in {-200, 0, 50, 100, 600, 1300}}

ValueError == [type |-> "ValueError", status_code |-> 0,
               detail |-> "model prediction failed"]

_rule_based_prediction(ndvi, ndwi, savi) ==
    LET from_ndvi == IF 300 <= ndvi /\ ndvi <= 800 THEN 400
                     ELSE IF 200 <= ndvi /\ ndvi < 300 THEN 200
                     ELSE IF ndvi > 800 THEN 100
                     ELSE 0
        from_ndwi == IF -300 <= ndwi /\ ndwi <= 300 THEN 300
                     ELSE IF -500 <= ndwi /\ ndwi < -300 THEN 100
                     ELSE 0
        from_savi == IF 200 <= savi /\ savi <= 600 THEN 300
                     ELSE IF 100 <= savi /\ savi < 200 THEN 100
                     ELSE 0
        score == from_ndvi + from_ndwi + from_savi
    IN IF score < 1000 THEN score ELSE 1000

\* coverage in thousandths, the score in thousandths of a point
_calculate_health_score(ndvi, coverage) ==
    IF coverage < 100 THEN 0
    ELSE LET health == IF ndvi >= 600 THEN 90
                       ELSE IF ndvi >= 400 THEN 70
                       ELSE IF ndvi >= 200 THEN 50
                       ELSE 20
             adjusted == health * coverage
         IN IF adjusted < 100000 THEN adjusted ELSE 100000

\* the try block of predict_mangrove_coverage; y is what the model's predict
\* comes back with.  `ndvi + 0.25` and the comparisons of the rule-based
\* score raise TypeError on None.
predict_try(satellite_data, y) ==
    LET ndvi == dict_get(satellite_data, "ndvi", Num(0))
        ndwi == dict_get(satellite_data, "ndwi", Num(0))
        savi == dict_get(satellite_data, "savi", Num(0))
        with_model == ml.nn_model \/ ml.rf_model
        prediction == IF with_model THEN y.v
                      ELSE _rule_based_prediction(ndvi.v, ndwi.v, savi.v)
        confidence == IF ml.nn_model THEN 800
                      ELSE IF ml.rf_model THEN 750
                      ELSE 600
        clamped == Max(0, IF prediction < 1000 THEN prediction ELSE 1000)
    IN IF ndvi.null THEN [e |-> TypeError, data |-> NoneDoc]
       ELSE IF with_model /\ y.raises THEN [e |-> ValueError, data |-> NoneDoc]
       ELSE IF ~with_model /\ (ndwi.null \/ savi.null)
       THEN [e |-> TypeError, data |-> NoneDoc]
       ELSE [e |-> NoExc,
             data |-> [coverage |-> clamped,
                       confidence |-> confidence,
                       ndvi |-> ndvi.v,
                       health_score |-> _calculate_health_score(ndvi.v, clamped),
                       model_type |-> IF ml.nn_model THEN "neural_network"
                                      ELSE IF ml.rf_model THEN "random_forest"
                                      ELSE "rule_based"]]

predict_mangrove_coverage_no_except(satellite_data, y) ==
    predict_try(satellite_data, y)

predict_mangrove_coverage(satellite_data, y) ==
    LET t == predict_try(satellite_data, y)
    IN IF t.e # NoExc
       THEN [e |-> NoExc,
             data |-> [coverage |-> 0, confidence |-> 0, ndvi |-> 0,
                       health_score |-> 0, model_type |-> "error",
                       error |-> Str(t.e)]]
       ELSE t

\* one call of ml_service.predict_mangrove_coverage
PredictMangroveCoverage(satellite_data, y) ==
    /\ last' = Response("predict_mangrove_coverage", 0, "",
                        [satellite_data |-> satellite_data, y |-> y],
                        predict_mangrove_coverage(satellite_data, y))
    /\ UNCHANGED <<users, incidents, clock, ticks, tokens, reg, svc, rd, vf,
                   analyses, prev, awarded, ml>>

\* ----------------------------------------------------------- specification
IncidentIds == {"i" \o ToString(n) : n \in 1..(MaxIncidents + 1)}
Coordinates == {<<-2, -44>>, <<21, 89>>}

\* the tokens presented where authentication is optional
OptionalCreds == {NoCred} \cup tokens \cup
    {jwt_encode([sub |-> "u1", email |-> "a@x.org", exp |-> FarFuture], OtherKey)}

\* POST /auth/register, with the requests of the slots S in flight
Register(S) ==
    \/ \E s \in S, user_data \in UserCreate : RegisterStart(s, user_data)
    \/ \E s \in S : RegisterCheck(s)
    \/ \E s \in S : RegisterInsert(s)

DoLogin == \E email \in Emails, password \in Passwords : Login(email, password)

DoGetIncident ==
    \E cred \in Creds, incident_id \in IncidentIds : GetIncident(cred, incident_id)

DoDbCreateIncident ==
    \E user_id \in {"u1", Anonymous} : DbCreateIncident(user_id)

DoPostIncidents ==
    \E cred \in OptionalCreds, body_userId \in {None, "u1"} :
        PostIncidents(cred, body_userId)

DoGetIncidents ==
    \E cred \in OptionalCreds, skip \in 0..1, limit \in 1..2,
       status_filter \in {None, "pending"} :
        GetIncidents(cred, skip, limit, status_filter)

DoPredictMangrove ==
    \E cred \in OptionalCreds, c \in Coordinates :
        PredictMangrove(cred, c[1], c[2])

\* the service with one registration at a time and the clock standing
Next ==
    \/ Register({1})
    \/ DoLogin
    \/ DoDbCreateIncident
    \/ DoGetIncident
    \/ DoPostIncidents
    \/ DoGetIncidents
    \/ DoPredictMangrove

Spec == Init /\ [][Next]_vars

\* concurrent registrations
NextRace == Register(Slots)

\* startup without Earth Engine credentials and without a Gemini key
InitPlain == Init /\ svc = [gee |-> FALSE, gemini |-> FALSE]

SpecRace == InitPlain /\ [][NextRace]_vars

\* registration, login and a protected endpoint while time passes
NextAuth ==
    \/ Tick
    \/ Register({1})
    \/ DoLogin
    \/ DoGetIncident

SpecAuth == InitPlain /\ [][NextAuth]_vars

\* the incident ids a client can present: those handed out so far (str(uuid4())
\* cannot be guessed beforehand) and one that is never handed out
KnownIds == {incidents[i]._id : i \in DOMAIN incidents} \cup {"i0"}

\* the points of the gamification layer: registration, login, reports,
\* verification by the route and image analysis, Gemini configured or not
InitPoints == Init /\ ~svc.gee

NextPoints ==
    \/ Register({1})
    \/ DoLogin
    \/ DoDbCreateIncident
    \/ \E cred \in tokens, incident_id \in KnownIds,
          verification \in Verifications :
           VerifyIncident(1, cred, incident_id, verification)
    \/ \E s \in Slots : DbVerifyAward(s)
    \/ \E cred \in tokens, raises \in BOOLEAN :
           AnalyzeImage(cred, raises)
    \/ \E limit \in 0..MaxUsers : GetLeaderboard(limit)

SpecPoints == InitPoints /\ [][NextPoints]_vars

\* the counts of get_user_stats and get_dashboard_analytics beside the
\* writers of the incidents collection: reports and direct verifications
NextStats ==
    \/ DoDbCreateIncident
    \/ \E incident_id \in KnownIds, verification \in Verifications :
           DbVerifyIncident(1, incident_id, verification, "u1")
    \/ \E s \in Slots : DbVerifyAward(s)
    \/ \E user_id \in {"u1", Anonymous} : GetUserStatsTotal(user_id)
    \/ GetUserStatsVerified
    \/ GetDashboardTotal
    \/ GetDashboardCount
    \/ GetDashboardReturn

SpecStats == InitPlain /\ [][NextStats]_vars

\* Database.verify_incident called directly by u1, beside registrations and
\* reports
NextVerify ==
    \/ Register({1})
    \/ DoDbCreateIncident
    \/ \E incident_id \in KnownIds, verification \in Verifications :
           DbVerifyIncident(1, incident_id, verification, "u1")
    \/ \E s \in Slots : DbVerifyAward(s)

SpecVerify == InitPlain /\ [][NextVerify]_vars

\* image analysis by the registered users, Gemini configured or not
NextAnalyze ==
    \/ Register({1})
    \/ DoLogin
    \/ \E cred \in tokens, raises \in BOOLEAN :
           AnalyzeImage(cred, raises)

SpecAnalyze == InitPoints /\ [][NextAnalyze]_vars

\* verification through the route by admins and by others, with known and
\* unknown incident ids
NextFrame ==
    \/ Register({1})
    \/ DoLogin
    \/ DoDbCreateIncident
    \/ \E cred \in tokens, incident_id \in KnownIds,
          verification \in Verifications :
           VerifyIncident(1, cred, incident_id, verification)
    \/ \E s \in Slots : DbVerifyAward(s)

SpecFrame == InitPlain /\ [][NextFrame]_vars

\* the prediction service: loading the models, then predictions
NextPredict ==
    \/ \E nn_model, rf_model \in BOOLEAN : LoadModel(nn_model, rf_model)
    \/ \E satellite_data \in SatelliteData, y \in ModelOutputs :
           PredictMangroveCoverage(satellite_data, y)

SpecPredict == InitPlain /\ [][NextPredict]_vars

\* concurrent awards: approvals by direct calls in every slot, suspended
\* before their award, beside the image analyses of the registered users
NextAward ==
    \/ Register({1})
    \/ DoLogin
    \/ \E u \in users : DbCreateIncident(u._id)
    \/ \E s \in Slots, incident_id \in KnownIds,
          verification \in {v \in Verifications :
                              dict_get(v, "approved", FALSE)} :
           DbVerifyIncident(s, incident_id, verification, "u1")
    \/ \E s \in Slots : DbVerifyAward(s)
    \/ \E cred \in tokens : AnalyzeImage(cred, FALSE)

\* Gemini configured, Earth Engine not
InitAward == Init /\ svc = [gee |-> FALSE, gemini |-> TRUE]

SpecAward == InitAward /\ [][NextAward]_vars

\* the Earth Engine wrappers, called with every outcome of the real queries
DoGetSatelliteData ==
    \E c \in Coordinates, q \in EESatellite :
        GetSatelliteData(c[1], c[2], q)

DoGetMangroveExtentData ==
    \E c \in Coordinates, q \in EEExtent :
        GetMangroveExtentData(c[1], c[2], q)

DoGetMangroveTrends ==
    \E c \in Coordinates, q \in EETrends, normal \in Draws :
        GetMangroveTrends(c[1], c[2], q, normal)

NextGee ==
    \/ DoGetSatelliteData
    \/ DoGetMangroveExtentData
    \/ DoGetMangroveTrends
    \/ \E content_type \in ContentTypes, size \in 0..MaxUpload :
           PredictMangroveImage(content_type, size)

SpecGee == Init /\ [][NextGee]_vars

\* ================================================================== claims
SignedByService(t) == t.sig = HS256(t, secret_key)

\* C1: whatever the interleaving of registration requests, also when two
\* registrations of one email both pass the existence check, no two stored
\* users have the same email.
C1_UniqueEmail == \A u \in users, v \in users : u.email = v.email => u = v

\* a registration that passed the existence check and was then turned down
\* by the insert, the other registration of the email having been stored
C1_Witness ==
    /\ last.op = "register"
    /\ ~last.req.existing
    /\ last.status = 400
    /\ \E u \in users : u.email = last.req.email

\* C2: a registration whose email is already registered is answered 400
\* 'Email already registered' and creates no user.
C2_DuplicateRejected400 ==
    [][(last'.op = "register" /\ \E u \in users : u.email = last'.req.email)
         => (/\ last'.status = 400
             /\ last'.detail = "Email already registered"
             /\ users' = users)]_vars

\* C3: login answers with a bearer token whose subject is the user's id
\* exactly when a user with the email exists and the password matches the
\* stored hash; otherwise it answers 401 'Invalid credentials' without token.
C3_LoginIff ==
    last.op = "login" =>
      IF \E u \in users : /\ u.email = last.req.email
                          /\ u.password = hash_password(last.req.password,
                                                        u.password.salt)
      THEN /\ last.status = 200
           /\ last.out.token_type = "bearer"
           /\ \E u \in users : /\ u.email = last.req.email
                               /\ last.out.access_token.sub = u._id
           /\ last.out.access_token \in tokens
      ELSE /\ last.status = 401
           /\ last.detail = "Invalid credentials"
           /\ "access_token" \notin DOMAIN last.out
           /\ last.out.user = None

\* a login that succeeded while the other password of the user is refused
C3_Witness ==
    /\ last.op = "login"
    /\ last.status = 200
    /\ \E u \in users : u._id = last.out.access_token.sub /\ u.email = last.req.email
    /\ \E p \in Passwords :
         authenticate_user(last.req.email, p, clock).e # NoExc

\* C4: a token that a login returned, presented before its expiry,
\* authenticates as the user who logged in; a token not signed with the
\* service's secret, without a subject, or whose subject names no stored
\* user is answered 401.
C4_TokenRoundTrip ==
    (last.op = "get_incident" /\ last.req.cred # NoCred) =>
      LET t == last.req.cred
      IN /\ (t \in tokens /\ clock < t.exp) =>
              /\ last.out.ran
              /\ \E u \in users : /\ u.email = t.email
                                  /\ u._id = t.sub
                                  /\ last.out.user = u._id
         /\ (\/ ~SignedByService(t)
             \/ t.sub = None
             \/ ~\E u \in users : u._id = t.sub) =>
              /\ last.status = 401
              /\ ~last.out.ran
              /\ last.out.user = None

\* an issued token was presented in time and the handler ran for its user
C4_Witness ==
    /\ last.op = "get_incident"
    /\ last.req.cred \in tokens
    /\ clock > 0
    /\ clock < last.req.cred.exp
    /\ last.out.ran
    /\ last.out.user = last.req.cred.sub

\* C5: a token issued at time t expires at t + ACCESS_TOKEN_EXPIRE_MINUTES:
\* a protected endpoint accepts it at every earlier time and answers 401
\* 'Invalid token', without running its handler, at every later time.
C5_Expiry ==
    /\ (last.op = "login" /\ last.status = 200) =>
          last.out.access_token.exp = clock + ACCESS_TOKEN_EXPIRE_MINUTES
    /\ (last.op = "get_incident" /\ last.req.cred \in tokens) =>
          /\ clock < last.req.cred.exp => (last.out.ran /\ last.status # 401)
          /\ clock > last.req.cred.exp =>
               /\ last.status = 401
               /\ last.detail = "Invalid token"
               /\ ~last.out.ran

\* an issued token was presented after its expiry and refused
C5_Witness ==
    /\ last.op = "get_incident"
    /\ last.req.cred \in tokens
    /\ clock > last.req.cred.exp
    /\ last.status = 401
    /\ ~last.out.ran

\* C6: a POST /incidents that reaches its handler creates an incident that
\* is stored under its generated identifier, and GET /incidents/{id} with
\* the identifier of the response finds that incident.
C6_PostGetRoundTrip ==
    (last.op = "post_incidents" /\ last.out.ran) =>
      /\ last.status = 200
      /\ "incident" \in DOMAIN last.out
      /\ get_incident_by_id(last.out.incident.id) # NoneDoc

\* C7: GET /incidents returns the stored incidents that match the status
\* filter, without the first skip of them and at most limit of them, so a
\* store with matching incidents gives a non-empty list for skip 0.
C7_ListIncidents ==
    (last.op = "get_incidents" /\ last.out.ran) =>
      last.out.incidents =
        SkipLimit(SelectSeqBy(incidents, last.req.status_filter),
                  last.req.skip, last.req.limit)

\* C8: GET /incidents/{id} by an authenticated user for an id that matches
\* no stored incident is answered 404 'Incident not found'.
C8_NotFound404 ==
    (/\ last.op = "get_incident"
     /\ last.out.user # None
     /\ get_incident_by_id(last.req.incident_id) = NoneDoc) =>
      /\ last.status = 404
      /\ last.detail = "Incident not found"

\* C9: POST /incidents and GET /incidents handle a request without bearer
\* credentials or with an invalid token, with current user None, and an
\* incident created that way without userId in the body belongs to
\* 'anonymous'.
C9_OptionalAuth ==
    (/\ last.op \in {"post_incidents", "get_incidents"}
     /\ \/ last.req.cred = NoCred
        \/ ~SignedByService(last.req.cred)) =>
      /\ last.out.ran
      /\ last.out.user = None
      /\ (last.op = "post_incidents" /\ last.req.userId = None) =>
            /\ "incident" \in DOMAIN last.out
            /\ last.out.incident.userId = Anonymous

\* C10: POST /predict-mangrove with latitude and longitude in the body
\* answers successfully with a prediction for the same latitude and
\* longitude.
C10_PredictMangrove ==
    (last.op = "predict_mangrove" /\ last.out.ran) =>
      /\ last.status = 200
      /\ "latitude" \in DOMAIN last.out
      /\ last.out.latitude = last.req.latitude
      /\ last.out.longitude = last.req.longitude

\* ------------------------------------------------------------------ C11
\* two calls of the same wrapper with the same coordinates, the later one
\* being the latest step, while Earth Engine is not initialized
SameMockCall(op) ==
    /\ ~svc.gee
    /\ prev.op = op
    /\ last.op = op
    /\ prev.req = last.req

\* the vegetation indices of a satellite result
Indices(data) ==
    <<data.ndvi, data.ndwi, data.savi, data.area_stats, data.data_source>>

\* C11 as stated: while Earth Engine is not initialized, two calls of
\* get_satellite_data, of get_mangrove_extent_data or of get_mangrove_trends
\* with the same latitude and longitude return the same vegetation-index,
\* extent and trend values.
C11_MockDeterministic ==
    /\ SameMockCall("gee.get_satellite_data")
           => Indices(prev.out.data) = Indices(last.out.data)
    /\ SameMockCall("gee.get_mangrove_extent_data")
           => prev.out.data = last.out.data
    /\ SameMockCall("gee.get_mangrove_trends")
           => prev.out.data = last.out.data

\* C11 amended: while Earth Engine is not initialized, two calls of
\* get_satellite_data or of get_mangrove_extent_data with the same latitude
\* and longitude return the same vegetation-index and extent values; two
\* calls of get_mangrove_trends return the same years, location and radius,
\* and every health score lies in [0, 100] with ndvi_mean a hundredth of it,
\* but the health scores themselves are drawn at random on every call.
C11_MockDeterministicButTrends ==
    /\ SameMockCall("gee.get_satellite_data")
           => Indices(prev.out.data) = Indices(last.out.data)
    /\ SameMockCall("gee.get_mangrove_extent_data")
           => prev.out.data = last.out.data
    /\ SameMockCall("gee.get_mangrove_trends")
           => /\ prev.out.data.location = last.out.data.location
              /\ prev.out.data.radius_km = last.out.data.radius_km
              /\ Len(prev.out.data.trends) = Len(last.out.data.trends)
              /\ \A i \in DOMAIN last.out.data.trends :
                    LET a == prev.out.data.trends[i]
                        b == last.out.data.trends[i]
                    IN /\ a.year = b.year
                       /\ b.health_score >= 0
                       /\ b.health_score <= 100000
                       /\ b.ndvi_mean = b.health_score \div 100

\* two mock extent calls at the same place, away from the equator, have
\* returned the same extent
C11_Witness ==
    /\ SameMockCall("gee.get_mangrove_extent_data")
    /\ last.req.latitude # 0
    /\ prev.out.data = last.out.data
    /\ last.out.data.current_extent_hectares = Abs(last.req.latitude) * 10000

\* ------------------------------------------------------------------ C12
\* the latest wrapper call returned the mock result of its coordinates
IsMock(r) ==
    CASE r.op = "gee.get_satellite_data" ->
             r.out.data = _get_mock_satellite_data(r.req.latitude,
                                                   r.req.longitude, clock)
      [] r.op = "gee.get_mangrove_extent_data" ->
             r.out.data = _get_mock_extent_data(r.req.latitude,
                                                r.req.longitude)
      [] r.op = "gee.get_mangrove_trends" ->
             \E normal \in Draws :
                 r.out.data = _get_mock_trends_data(r.req.latitude,
                                                    r.req.longitude, normal)
      [] OTHER -> FALSE

\* C12: get_satellite_data, get_mangrove_extent_data and get_mangrove_trends
\* never fail: when Earth Engine is not initialized or the real query raises
\* they return the mock result (data_source 'Mock' for satellite data), and
\* real data (data_source 'Landsat') is returned only when Earth Engine is
\* initialized.
C12_GeeNeverFails ==
    last.op \in GeeOps =>
        /\ last.out.e = NoExc
        /\ (~svc.gee \/ last.out.failed) => IsMock(last)
        /\ (last.op = "gee.get_satellite_data" /\ IsMock(last))
               => last.out.data.data_source = "Mock"
        /\ ~IsMock(last) => svc.gee
        /\ (last.op = "gee.get_satellite_data"
               /\ last.out.data.data_source = "Landsat") => svc.gee

\* an initialized service whose real satellite query raised, answered by
\* the mock
C12_Witness ==
    /\ svc.gee
    /\ last.op = "gee.get_satellite_data"
    /\ last.out.failed
    /\ last.out.data.data_source = "Mock"

\* ------------------------------------------------------------------ C13
\* C13: POST /predict-mangrove-image answers 400 'Invalid image file format'
\* when the upload has no content type or one that does not start with
\* 'image/', and 400 'Empty image file' when an image upload has no bytes;
\* in both cases the model is not invoked and the 400 is not turned into a
\* 500.  Any other upload is handed to the model and answered 200.
C13_ImageValidation ==
    last.op = "predict_mangrove_image" =>
        LET ct == last.req.content_type
        IN IF ct = <<>> \/ ~StartsWithImage(ct)
           THEN /\ last.status = 400
                /\ last.detail = "Invalid image file format"
                /\ ~last.out.ran
           ELSE IF last.req.size = 0
           THEN /\ last.status = 400
                /\ last.detail = "Empty image file"
                /\ ~last.out.ran
           ELSE last.status = 200 /\ last.out.ran

\* an empty upload declared image/png was answered 400
C13_Witness ==
    /\ last.op = "predict_mangrove_image"
    /\ last.req.content_type = <<"image", "png">>
    /\ last.req.size = 0
    /\ last.status = 400

\* ------------------------------------------------------------------ C17
\* C17: POST /user/verify-incident/{id} by an authenticated user who is not
\* an admin is answered 403 'Admin access required'.
C17_AdminRequired403 ==
    (/\ last.op = "verify_incident"
     /\ last.out.user # None
     /\ ~get_user_by_id(last.out.user).is_admin)
        => /\ last.status = 403
           /\ last.detail = "Admin access required"

\* ------------------------------------------------------------------ C18
VerifyOps == {"verify_incident", "db.verify_incident"}

\* C18: Database.verify_incident on an existing incident.  Approved: the
\* update sets status 'verified', verified_by the verifier and points_awarded
\* verification.points (10 when absent), and the award that follows adds
\* exactly that amount to the reporting user's points and to nobody else's.
\* Not approved: the update sets status 'rejected' and verified_by, and no
\* user's points change.
C18_VerifyIncident ==
    [][/\ \A s \in Slots :
            /\ (vf[s].pc = "idle" /\ vf'[s].pc = "award"
                    /\ get_incident_by_id(vf'[s].incident_id) # NoneDoc)
                 => /\ vf'[s].points_awarded =
                           dict_get(vf'[s].req.verification, "points", 10)
                    /\ users' = users
                    /\ \E i \in DOMAIN incidents' :
                          /\ incidents'[i]._id = vf'[s].incident_id
                          /\ incidents'[i].status = "verified"
                          /\ incidents'[i].verified_by = vf'[s].verifier_id
                          /\ incidents'[i].points_awarded =
                                 vf'[s].points_awarded
                          /\ incidents'[i].user_id = incidents[i].user_id
            /\ (vf[s].pc = "award" /\ vf'[s].pc = "idle"
                    /\ get_incident_by_id(vf[s].incident_id) # NoneDoc)
                 => /\ incidents' = incidents
                    /\ last'.status = 200
                    /\ users' =
                         {[u EXCEPT !.points =
                              @ + (IF u._id = get_incident_by_id(
                                                 vf[s].incident_id).user_id
                                   THEN vf[s].points_awarded ELSE 0)] :
                            u \in users}
       /\ (/\ last'.op \in VerifyOps
           /\ last'.out.ran
           /\ ~dict_get(last'.req.verification, "approved", FALSE)
           /\ get_incident_by_id(last'.req.incident_id) # NoneDoc)
            => /\ users' = users
               /\ \E i \in DOMAIN incidents' :
                     /\ incidents'[i]._id = last'.req.incident_id
                     /\ incidents'[i].status = "rejected"
                     /\ incidents'[i].verified_by = last'.out.user
                     /\ incidents'[i].points_awarded =
                            incidents[i].points_awarded]_vars

\* an approval with the default points has been carried through: the
\* incident is verified with 10 points awarded and its reporter holds them
C18_Witness ==
    /\ last.op = "db.verify_incident"
    /\ last.status = 200
    /\ last.out.success
    /\ last.req.verification = [approved |-> TRUE]
    /\ get_incident_by_id(last.req.incident_id).status = "verified"
    /\ get_incident_by_id(last.req.incident_id).points_awarded = 10
    /\ \E u \in users : u._id = last.out.awarded_to /\ u.points >= 10

\* ------------------------------------------------------------------ C19
\* C19: POST /analyze-image by an authenticated user.  When the analysis
\* succeeds the answer is 200 with points_earned 5 and the caller's points
\* grow by exactly 5 (nobody else's change); when Gemini is not configured or
\* the vision call raises the answer is 500 and no points change.
C19_AnalyzeImage ==
    [][(last'.op = "analyze_image" /\ last'.out.user # None) =>
          IF ~svc.gemini \/ last'.req.raises
          THEN /\ last'.status = 500
               /\ users' = users
               /\ analyses' = analyses
          ELSE /\ last'.status = 200
               /\ last'.out.points_earned = 5
               /\ users' = {[u EXCEPT !.points =
                               @ + (IF u._id = last'.out.user THEN 5 ELSE 0)] :
                              u \in users}]_vars

\* a second successful analysis: the caller holds at least 10 points
C19_Witness ==
    /\ last.op = "analyze_image"
    /\ last.status = 200
    /\ svc.gemini
    /\ \E u \in users : u._id = last.out.user /\ u.points >= 10

\* ------------------------------------------------------------------ C20
\* the sum of points_awarded over the incidents of user_id that are
\* verified now
RECURSIVE VerifiedPoints(_, _)
VerifiedPoints(s, user_id) ==
    IF s = <<>> THEN 0
    ELSE (IF Head(s).user_id = user_id /\ Head(s).status = "verified"
          THEN Head(s).points_awarded ELSE 0)
         + VerifiedPoints(Tail(s), user_id)

\* C20: whenever no verification is suspended before its award, each user's
\* points equal 5 times the number of their successful /analyze-image calls
\* plus the sum of points_awarded over their incidents that are verified now.
C20_PointsConsistency ==
    (\A s \in Slots : vf[s].pc = "idle") =>
        \A u \in users :
            u.points = 5 * analyses[u._id] + VerifiedPoints(incidents, u._id)

\* ------------------------------------------------------------------ C14
\* C14: get_leaderboard(limit) returns at most limit users, in
\* non-increasing order of points, with ranks 1, 2, ..., n in that order,
\* and each entry's points are the stored points of its user.
C14_Leaderboard ==
    last.op = "db.get_leaderboard" =>
        LET leaderboard == last.out.leaderboard
        IN /\ Len(leaderboard) <= last.req.limit
           /\ \A i, j \in DOMAIN leaderboard :
                 i < j => leaderboard[i].points >= leaderboard[j].points
           /\ \A i \in DOMAIN leaderboard : leaderboard[i].rank = i
           /\ \A i \in DOMAIN leaderboard :
                 \E u \in users : /\ u.email = leaderboard[i].name
                                  /\ u.points = leaderboard[i].points

C16_Dashboard ==
    last.op = "db.get_dashboard_analytics" =>
        LET out == last.out
        IN /\ out.verification_rate =
                 (IF out.total_incidents > 0
                  THEN (out.verified_incidents * 100000) \div out.total_incidents
                  ELSE 0)
           /\ out.verification_rate >= 0
           /\ out.verification_rate <= 100000
           /\ out.pending_incidents + out.verified_incidents
                  + out.resolved_incidents <= out.total_incidents

\* ------------------------------------------------------------------ C21
\* C21: no lost update on points.  Whatever the interleaving of image
\* analysis awards and verification awards, every user's points equal the
\* points at registration (0) plus the sum of all amounts awarded to that
\* user so far.
C21_NoLostUpdate ==
    \A u \in users : u.points = awarded[u._id]

\* an image analysis award has just been added while two approvals of
\* reports of the same user were both suspended before their awards
C21_Witness ==
    /\ last.op = "analyze_image"
    /\ last.status = 200
    /\ \A s \in Slots : vf[s].pc = "award"
    /\ \E s, t \in Slots :
          /\ s # t
          /\ get_incident_by_id(vf[s].incident_id) # NoneDoc
          /\ get_incident_by_id(vf[t].incident_id) # NoneDoc
          /\ get_incident_by_id(vf[s].incident_id).user_id = last.out.user
          /\ get_incident_by_id(vf[t].incident_id).user_id = last.out.user

\* ------------------------------------------------------------------ C22
\* no stored incident has this id
Unknown(incident_id) ==
    \A i \in DOMAIN incidents : incidents[i]._id # incident_id

\* C22: a verify-incident request that does not succeed changes no stored
\* incident and no user's points.  The request of a caller who is not an
\* admin is answered without reaching the database; the request for an id
\* that matches no stored incident changes nothing in its update (approved
\* or not) nor in the award step of an approval, which is answered 500.
C22_FailedVerifyFrame ==
    [][/\ (/\ last'.op = "verify_incident"
           /\ last'.out.user # None
           /\ ~get_user_by_id(last'.out.user).is_admin)
            => /\ ~last'.out.ran
               /\ incidents' = incidents
               /\ users' = users
               /\ vf' = vf
       /\ \A s \in Slots :
            /\ (/\ vf[s].pc = "idle"
                /\ vf'[s].pc = "award"
                /\ vf'[s].op = "verify_incident")
                 => get_user_by_id(vf'[s].verifier_id).is_admin
            /\ (/\ vf[s].pc = "idle"
                /\ vf'[s].pc = "award"
                /\ Unknown(vf'[s].incident_id))
                 => incidents' = incidents /\ users' = users
            /\ (/\ vf[s].pc = "award"
                /\ vf'[s].pc = "idle"
                /\ Unknown(vf[s].incident_id))
                 => /\ incidents' = incidents
                    /\ users' = users
                    /\ last'.status = 500
       /\ (/\ last'.op \in VerifyOps
           /\ last'.out.ran
           /\ Unknown(last'.req.incident_id))
            => /\ incidents' = incidents
               /\ users' = users
               /\ ~last'.out.success]_vars

\* the approval of an unknown id by an admin has been answered 500 while a
\* report and its reporter are stored
C22_Witness ==
    /\ last.op = "verify_incident"
    /\ last.status = 500
    /\ last.out.ran
    /\ Unknown(last.req.incident_id)
    /\ dict_get(last.req.verification, "approved", FALSE)
    /\ \E i \in DOMAIN incidents :
          \E u \in users : u._id = incidents[i].user_id

\* ------------------------------------------------------------------ C23
\* C23: an incident created by Database.create_incident starts with status
\* 'pending', points_awarded 0 and verified_by unset; after any sequence of
\* verify_incident calls its status is one of pending, verified, rejected,
\* it never returns to pending once verified or rejected, and points_awarded
\* is non-zero only while the status is 'verified'.
C23_IncidentLifecycle ==
    [][/\ last'.op = "db.create_incident"
            => /\ Len(incidents') = Len(incidents) + 1
               /\ incidents'[Len(incidents')].status = "pending"
               /\ incidents'[Len(incidents')].points_awarded = 0
               /\ incidents'[Len(incidents')].verified_by = None
       /\ \A i \in DOMAIN incidents' :
            /\ incidents'[i].status \in {"pending", "verified", "rejected"}
            /\ incidents'[i].points_awarded # 0
                 => incidents'[i].status = "verified"
       /\ \A i \in DOMAIN incidents :
            incidents[i].status # "pending"
              => incidents'[i].status # "pending"]_vars

\* ------------------------------------------------------------------ C24
\* C24: predict_mangrove_coverage never raises and always returns coverage
\* within [0, 1] and health_score within [0, 100], health_score 0 whenever
\* coverage < 0.1; it uses the neural network when present, otherwise the
\* random forest, otherwise the rule-based score, with confidence 0.8, 0.75
\* and 0.6 respectively, and confidence 0 with model_type 'error' when the
\* prediction fails (an index that is None where it is used, or a model
\* whose predict raises).
C24_PredictMangroveCoverage ==
    last.op = "predict_mangrove_coverage"
      => LET d == last.out.data
             sd == last.req.satellite_data
             y == last.req.y
             ndvi == dict_get(sd, "ndvi", Num(0))
             ndwi == dict_get(sd, "ndwi", Num(0))
             savi == dict_get(sd, "savi", Num(0))
             with_model == ml.nn_model \/ ml.rf_model
             fails == \/ ndvi.null
                      \/ with_model /\ y.raises
                      \/ ~with_model /\ (ndwi.null \/ savi.null)
             bounded == IF y.v < 0 THEN 0 ELSE IF y.v > 1000 THEN 1000 ELSE y.v
         IN /\ last.out.e = NoExc
            /\ 0 <= d.coverage /\ d.coverage <= 1000
            /\ 0 <= d.health_score /\ d.health_score <= 100000
            /\ d.coverage < 100 => d.health_score = 0
            /\ fails <=> d.model_type = "error"
            /\ fails => d.confidence = 0
            /\ ~fails /\ ml.nn_model
                 => /\ d.model_type = "neural_network"
                    /\ d.confidence = 800
                    /\ d.coverage = bounded
            /\ ~fails /\ ~ml.nn_model /\ ml.rf_model
                 => /\ d.model_type = "random_forest"
                    /\ d.confidence = 750
                    /\ d.coverage = bounded
            /\ ~fails /\ ~with_model
                 => /\ d.model_type = "rule_based"
                    /\ d.confidence = 600
                    /\ d.coverage =
                         _rule_based_prediction(ndvi.v, ndwi.v, savi.v)

\* the random forest, without a neural network, has answered above 1 for a
\* healthy pixel
C24_Witness ==
    /\ last.op = "predict_mangrove_coverage"
    /\ ~ml.nn_model
    /\ ml.rf_model
    /\ ~last.req.y.raises
    /\ last.req.y.v > 1000
    /\ last.out.data.model_type = "random_forest"
    /\ last.out.data.coverage = 1000
    /\ last.out.data.health_score = 90000

=============================================================================
